---- MODULE Spec2Model ----
(***************************************************************************)
(* One browser session of the Streamlit script app.py.                     *)
(*                                                                         *)
(* Streamlit executes the whole script top to bottom on every run.  A run  *)
(* is requested by the browser opening the page, by a widget interaction   *)
(* or by st.rerun().  st.session_state and the widget values survive from  *)
(* run to run; everything else is recomputed.  The script is cut into      *)
(* steps at its calls to external services (secrets/Gemini set-up, Google  *)
(* Sheets set-up, the Gemini stream, the sheet append), whose outcome is   *)
(* chosen by the environment, and between its writes to st.session_state   *)
(* wherever a yield point (an st.* call, an access to st.session_state)    *)
(* lies between two of them.  During a run the widgets on screen are live: *)
(* an interaction makes the runtime stop the script at its next yield      *)
(* point and start the run the interaction asks for.                       *)
(*                                                                         *)
(* A text is a sequence of one-character strings, so that len() is Len and *)
(* string concatenation is \o.  An exception is the one-element sequence   *)
(* of its message, so that one with an empty message is still one.        *)
(***************************************************************************)
EXTENDS Integers, Sequences, FiniteSets, TLC

\* ------------------------------------------------------------- bounds
\* submissions per session, under Spec and FairSpec (the clock stands still)
MaxTurns == 2
\* submissions per session and clock readings, under ClockSpec
MaxTimedTurns == 1
MaxClock == 1
\* failed calls of the Gemini stream per session
MaxGatewayFailures == 1
\* failed calls of the sheet append per session
MaxSinkFailures == 1

\* ------------------------------------------------------------- values
NoId == "NoId"
UUIDs == {"uuid-1", "uuid-2"}
NoPrompt == <<>>
\* The script never looks into a prompt (st.chat_input returns None or a
\* non-empty string, which is passed on as it is), so the k-th prompt of a
\* session is a text of its own: "A", "B?", "C??", ...
Letters == <<"A", "B", "C", "D", "E">>
Prompt(k) == [i \in 1..k |-> IF i = 1 THEN Letters[k] ELSE "?"]
None == "None"
Absent == "Absent"
\* the uploader filters on the extension only: a file may be no image
Files == {"a.png", "notes.png"}
Images == {"a.png"}
NoException == <<>>
Exceptions == {<< <<"q", "u", "o", "t", "a">> >>, << <<>> >>}
ChunkStreams == {<<>>, << <<"o", "k">>, <<"!">> >>}

VARIABLES
    \* st.session_state
    anonymized_user_id, chat_history, page, turn_count, uploaded_file,
    \* widget values kept by the Streamlit runtime between runs
    chat_input, button, file_uploader,
    \* the run: position in the script, rerun request, what is on screen
    pc, rerun, screen,
    \* locals of show_chat_interface during a submission
    prompt, attachment_type, api_prompt_parts, start_time, full_response,
    duration_ms,
    \* environment: the secrets, the wall clock, the spreadsheet, the calls
    \* of the Gemini stream and of the sheet append that have failed
    secrets, now, gsheet, gateway_failures, sink_failures,
    \* data handed to st.download_button by the latest sidebar rendering
    download_data,
    \* history variables (observers, not read by the script)
    submitted, completed, append_calls, log_args, gateway_raised,
    fresh_upload, submission_since_export

session_vars == <<anonymized_user_id, chat_history, page, turn_count,
                  uploaded_file>>
widget_vars == <<chat_input, button, file_uploader>>
local_vars == <<prompt, attachment_type, api_prompt_parts, start_time,
                full_response, duration_ms>>
env_vars == <<secrets, now, gsheet, gateway_failures, sink_failures>>
history_vars == <<submitted, completed, append_calls, log_args,
                  gateway_raised, fresh_upload, submission_since_export>>

vars == <<session_vars, widget_vars, pc, rerun, screen, local_vars,
          env_vars, download_data, history_vars>>

\* ------------------------------------------------------ pure functions
RECURSIVE Concat(_)
\* "".join(chunks): what st.write_stream returns for a stream of strings
Concat(chunks) ==
    IF chunks = <<>> THEN <<>> ELSE Head(chunks) \o Concat(Tail(chunks))

ErrorPrefix ==
    <<"E", "r", "r", "o", "r", " ", "c", "a", "l", "l", "i", "n", "g", " ",
      "G", "e", "m", "i", "n", "i", " ", "A", "P", "I", ":", " ">>

\* str(e) of a raised exception
str(e) == e[1]

\* The generator, as the list of strings it yields: the chunks received
\* before the API raised (all of them when it did not), then the error text.
get_gemini_response_stream(chunks, exc) ==
    IF exc = NoException THEN chunks
    ELSE Append(chunks, ErrorPrefix \o str(exc))

\* row_to_insert of log_interaction
row_to_insert(ts, user_id, turn, attachment, p, response, duration) ==
    [timestamp |-> ts, user_id |-> user_id, turn_count |-> turn,
     attachment_type |-> attachment, prompt |-> p, response |-> response,
     prompt_len |-> Len(p),
     response_len |-> IF response # <<>> THEN Len(response) ELSE 0,
     duration_ms |-> duration]

RoleLabel(message) ==
    IF message.role = "user" THEN "You" ELSE "AI Assistant"

MessageText(message) ==
    IF "text" \in DOMAIN message THEN message.text
    ELSE <<"[Image attached]">>

RECURSIVE FormatMessages(_)
FormatMessages(history) ==
    IF history = <<>> THEN <<>>
    ELSE << <<"**", RoleLabel(Head(history)), ":**", MessageText(Head(history))>>,
            <<"---">> >> \o FormatMessages(Tail(history))

RECURSIVE FormatMessagesStamped(_, _)
FormatMessagesStamped(history, t) ==
    IF history = <<>> THEN <<>>
    ELSE << <<"**", RoleLabel(Head(history)), ":**", MessageText(Head(history)), t>>,
            <<"---">> >> \o FormatMessagesStamped(Tail(history), t)

\* The download text as its lines; the Date line renders the clock reading.
format_chat_history_stamped(history, user_id, t) ==
    << <<"Chat History">>, <<"Participant ID: ", user_id>>, <<"Date: ", t>>,
       <<"=", 40>> >> \o FormatMessagesStamped(history, t)

format_chat_history_for_download(history, user_id, t) ==
    << <<"Chat History">>, <<"Participant ID: ", user_id>>, <<"Date: ", t>>,
       <<"=", 40>> >> \o FormatMessages(history)

HeaderLines == 4
DateLine == 3

\* --------------------------------------------------------------- Init
NoCall == [turn_count |-> 0]

Init ==
    /\ anonymized_user_id = NoId
    /\ chat_history = <<>>
    /\ page = Absent
    /\ turn_count = 0
    /\ uploaded_file = Absent
    /\ chat_input = NoPrompt
    /\ button = FALSE
    /\ file_uploader = None
    /\ pc = "idle"
    /\ rerun = TRUE
    /\ screen = "Blank"
    /\ prompt = NoPrompt
    /\ attachment_type = "Text Only"
    /\ api_prompt_parts = <<>>
    /\ start_time = 0
    /\ full_response = <<>>
    /\ duration_ms = 0
    /\ secrets \in {"valid", "invalid"}
    /\ now = 0
    /\ gsheet = <<>>
    /\ gateway_failures = 0
    /\ sink_failures = 0
    /\ download_data = <<>>
    /\ submitted = <<>>
    /\ completed = 0
    /\ append_calls = 0
    /\ log_args = NoCall
    /\ gateway_raised = FALSE
    /\ fresh_upload = FALSE
    /\ submission_since_export = FALSE

\* ------------------------------------------------- the script, by step
\* The run ends: trigger widgets (chat_input, button) go back to their
\* defaults and the browser shows what this run rendered.
EndRun(shown) ==
    /\ pc' = "idle"
    /\ screen' = shown
    /\ chat_input' = NoPrompt
    /\ button' = FALSE

\* The locals of show_chat_interface do not outlive the run.
DropLocals ==
    /\ prompt' = NoPrompt
    /\ attachment_type' = "Text Only"
    /\ api_prompt_parts' = <<>>
    /\ start_time' = 0
    /\ full_response' = <<>>
    /\ duration_ms' = 0

\* st.stop() after st.error(): nothing but the error message is rendered.
Stop == EndRun("Error")

\* A requested run starts; "Authentication and Clients", Gemini part.
ConfigureGemini ==
    /\ pc = "idle"
    /\ rerun
    /\ rerun' = FALSE
    /\ IF secrets = "valid"
       THEN /\ pc' = "sheets"
            /\ UNCHANGED <<screen, chat_input, button>>
       ELSE Stop
    /\ UNCHANGED <<session_vars, file_uploader, local_vars, env_vars,
                   download_data, history_vars>>

\* "Authentication and Clients", Google Sheets part: authorize and open the
\* spreadsheet over the network, on every run.
ConnectSheets ==
    /\ pc = "sheets"
    /\ \E ok \in BOOLEAN :
          IF ok
          THEN /\ pc' = "session"
               /\ UNCHANGED <<screen, chat_input, button>>
          ELSE Stop
    /\ UNCHANGED <<session_vars, file_uploader, rerun, local_vars, env_vars,
                   download_data, history_vars>>

\* "Session State Initialization", re-allocating on every run.
SessionInitUnguarded ==
    /\ pc = "session"
    /\ pc' = "route"
    /\ \E u \in UUIDs : anonymized_user_id' = u
    /\ chat_history' = <<>>
    /\ page' = "Landing"
    /\ turn_count' = 0
    /\ UNCHANGED <<uploaded_file, widget_vars, rerun, screen, local_vars,
                   env_vars, download_data, history_vars>>

\* "Session State Initialization"
SessionInit ==
    /\ pc = "session"
    /\ pc' = "route"
    /\ IF anonymized_user_id = NoId
       THEN /\ \E u \in UUIDs : anonymized_user_id' = u
            /\ chat_history' = <<>>
            /\ page' = "Landing"
            /\ turn_count' = 0
       ELSE UNCHANGED <<anonymized_user_id, chat_history, page, turn_count>>
    /\ UNCHANGED <<uploaded_file, widget_vars, rerun, screen, local_vars,
                   env_vars, download_data, history_vars>>

\* Router, page == "Landing": show_landing_page
ShowLandingPage ==
    /\ pc = "route"
    /\ page = "Landing"
    /\ IF button
       THEN /\ page' = "Chat"
            /\ rerun' = TRUE
       ELSE UNCHANGED <<page, rerun>>
    /\ EndRun("Landing")
    /\ UNCHANGED <<anonymized_user_id, chat_history, turn_count,
                   uploaded_file, file_uploader, local_vars, env_vars,
                   download_data, history_vars>>

\* Router, else branch: show_chat_interface down to st.chat_input.  The
\* sidebar formats the history for st.download_button when there is one;
\* the main part renders the title and the messages.
RenderSidebar ==
    /\ pc = "route"
    /\ page # "Landing"
    /\ IF chat_history # <<>>
       THEN /\ download_data' =
                   format_chat_history_for_download(chat_history,
                                                    anonymized_user_id, now)
            /\ submission_since_export' = FALSE
       ELSE UNCHANGED <<download_data, submission_since_export>>
    /\ pc' = "chat"
    /\ UNCHANGED <<session_vars, widget_vars, rerun, screen, local_vars,
                   env_vars, submitted, completed, append_calls, log_args,
                   gateway_raised, fresh_upload>>

\* st.chat_input returns no prompt: the run goes on to the file uploader at
\* the end of the function, stores its file and asks for a rerun.
ShowChatInterface ==
    /\ pc = "chat"
    /\ chat_input = NoPrompt
    /\ IF file_uploader # None
       THEN /\ uploaded_file' = file_uploader
            /\ rerun' = TRUE
       ELSE UNCHANGED <<uploaded_file, rerun>>
    /\ EndRun("Chat")
    /\ UNCHANGED <<anonymized_user_id, chat_history, page, turn_count,
                   file_uploader, local_vars, env_vars, download_data,
                   history_vars>>

\* The same as CountTurn, with the turn counter left alone.
CountTurnNoCount ==
    /\ pc = "chat"
    /\ chat_input # NoPrompt
    /\ prompt' = chat_input
    /\ UNCHANGED turn_count
    /\ attachment_type' = "Text Only"
    /\ api_prompt_parts' = <<chat_input>>
    /\ submission_since_export' = TRUE
    /\ pc' = "counted"
    /\ UNCHANGED <<anonymized_user_id, chat_history, page, uploaded_file,
                   widget_vars, rerun, screen, start_time, full_response,
                   duration_ms, env_vars, download_data, submitted,
                   completed, append_calls, log_args, gateway_raised,
                   fresh_upload>>

\* st.chat_input returns a prompt: count the turn and set the locals.
CountTurn ==
    /\ pc = "chat"
    /\ chat_input # NoPrompt
    /\ prompt' = chat_input
    /\ turn_count' = turn_count + 1
    /\ attachment_type' = "Text Only"
    /\ api_prompt_parts' = <<chat_input>>
    /\ submission_since_export' = TRUE
    /\ pc' = "counted"
    /\ UNCHANGED <<anonymized_user_id, chat_history, page, uploaded_file,
                   widget_vars, rerun, screen, start_time, full_response,
                   duration_ms, env_vars, download_data, submitted,
                   completed, append_calls, log_args, gateway_raised,
                   fresh_upload>>

HasUpload == uploaded_file \notin {Absent, None}

\* The prompt is shown, the pending upload, if any, is an image: classify
\* the attachment, append the user message, take the start time.
BeginSubmission ==
    /\ pc = "counted"
    /\ HasUpload => uploaded_file \in Images
    /\ attachment_type' = IF HasUpload THEN "Image Upload" ELSE "Text Only"
    /\ api_prompt_parts' =
           IF HasUpload
           THEN Append(api_prompt_parts, <<"Image", uploaded_file>>)
           ELSE api_prompt_parts
    /\ chat_history' = Append(chat_history,
                              [role |-> "user", text |-> prompt])
    /\ start_time' = now
    /\ gateway_raised' = FALSE
    /\ fresh_upload' = (fresh_upload /\ ~HasUpload)
    /\ pc' = "gateway"
    /\ UNCHANGED <<anonymized_user_id, page, turn_count, uploaded_file,
                   widget_vars, rerun, screen, prompt, full_response,
                   duration_ms, env_vars, download_data, submitted,
                   completed, append_calls, log_args,
                   submission_since_export>>

\* The prompt is shown, the pending upload is no image: st.image (or
\* Image.open) raises and the run dies, the chat input being all it has
\* rendered of the widgets below the sidebar.
SubmissionDies ==
    /\ pc = "counted"
    /\ HasUpload
    /\ uploaded_file \notin Images
    /\ EndRun("ChatInput")
    /\ DropLocals
    /\ UNCHANGED <<session_vars, file_uploader, rerun, env_vars,
                   download_data, history_vars>>

\* st.write_stream(get_gemini_response_stream(api_prompt_parts)): the API
\* delivers some chunks and then finishes or raises.
GatewayStream ==
    /\ pc = "gateway"
    /\ \E chunks \in ChunkStreams, exc \in Exceptions \cup {NoException} :
          /\ exc # NoException => gateway_failures < MaxGatewayFailures
          /\ full_response' = Concat(get_gemini_response_stream(chunks, exc))
          /\ gateway_raised' = (exc # NoException)
          /\ gateway_failures' = IF exc # NoException
                                 THEN gateway_failures + 1
                                 ELSE gateway_failures
    /\ duration_ms' = (now - start_time) * 1000
    /\ pc' = "respond"
    /\ UNCHANGED <<session_vars, widget_vars, rerun, screen, prompt,
                   attachment_type, api_prompt_parts, start_time, secrets,
                   now, gsheet, sink_failures, download_data, submitted,
                   completed, append_calls, log_args, fresh_upload,
                   submission_since_export>>

\* st_copy_to_clipboard has returned: append the assistant message.
AppendAssistant ==
    /\ pc = "respond"
    /\ chat_history' = Append(chat_history,
                              [role |-> "assistant", text |-> full_response])
    /\ pc' = "replied"
    /\ UNCHANGED <<anonymized_user_id, page, turn_count, uploaded_file,
                   widget_vars, rerun, screen, local_vars, env_vars,
                   download_data, history_vars>>

\* log_interaction when an exception of gsheet.append_row is not caught:
\* the run dies there.
LogInteractionUncaught ==
    /\ pc = "replied"
    /\ append_calls' = append_calls + 1
    /\ log_args' = [turn_count |-> turn_count, prompt |-> prompt,
                    response |-> full_response,
                    attachment_type |-> attachment_type]
    /\ \E ok \in BOOLEAN :
          IF ok
          THEN /\ gsheet' = Append(gsheet,
                      row_to_insert(now, anonymized_user_id, turn_count,
                                    attachment_type, prompt, full_response,
                                    duration_ms))
               /\ pc' = "logged"
               /\ UNCHANGED <<sink_failures, screen, chat_input, button,
                              local_vars>>
          ELSE /\ sink_failures < MaxSinkFailures
               /\ sink_failures' = sink_failures + 1
               /\ EndRun("ChatInput")
               /\ DropLocals
               /\ UNCHANGED gsheet
    /\ UNCHANGED <<session_vars, file_uploader, rerun, secrets, now,
                   gateway_failures, download_data, submitted, completed,
                   gateway_raised, fresh_upload, submission_since_export>>

\* log_interaction: build the row and call gsheet.append_row once, over the
\* network; its exception is caught and shown by st.error.
LogInteraction ==
    /\ pc = "replied"
    /\ append_calls' = append_calls + 1
    /\ log_args' = [turn_count |-> turn_count, prompt |-> prompt,
                    response |-> full_response,
                    attachment_type |-> attachment_type]
    /\ \E ok \in BOOLEAN :
          IF ok
          THEN /\ gsheet' = Append(gsheet,
                      row_to_insert(now, anonymized_user_id, turn_count,
                                    attachment_type, prompt, full_response,
                                    duration_ms))
               /\ UNCHANGED sink_failures
          ELSE /\ sink_failures < MaxSinkFailures
               /\ sink_failures' = sink_failures + 1
               /\ UNCHANGED gsheet
    /\ pc' = "logged"
    /\ UNCHANGED <<session_vars, widget_vars, rerun, screen, local_vars,
                   secrets, now, gateway_failures, download_data, submitted,
                   completed, gateway_raised, fresh_upload,
                   submission_since_export>>

\* The end of the submission: clear the uploaded file, st.rerun().  The run
\* ends before st.file_uploader is called, so the uploader is not on screen
\* until the next run; whether the runtime keeps the value of a widget that
\* a run ended by st.rerun() did not render depends on the Streamlit
\* version: both outcomes.
CompleteTurn ==
    /\ pc = "logged"
    /\ uploaded_file' = IF uploaded_file # Absent THEN None ELSE Absent
    /\ rerun' = TRUE
    /\ \E kept \in BOOLEAN :
          file_uploader' = IF kept THEN file_uploader ELSE None
    /\ completed' = completed + 1
    /\ EndRun("ChatInput")
    /\ DropLocals
    /\ UNCHANGED <<anonymized_user_id, chat_history, page, turn_count,
                   env_vars, download_data, submitted, append_calls,
                   log_args, gateway_raised, fresh_upload,
                   submission_since_export>>

\* ------------------------------------------------------ the participant
\* A run has not yet passed the upload of the prompt branch (set-up with
\* its network calls, router, sidebar, st.chat_input, the count of the
\* turn): the widgets of the previous run are still on screen.
Starting == pc \in {"sheets", "session", "route", "chat", "counted"}

\* A submission run is past the append of the user message: in
\* st.write_stream, before st_copy_to_clipboard, before or in
\* log_interaction, before the clearing of the upload.  The chat input and
\* the sidebar it has rendered are on screen, the file uploader is not.
Running == pc \in {"gateway", "respond", "replied", "logged"}

\* A widget interaction during a run: the runtime stops the script at its
\* next yield point (an st.* call, an access to st.session_state) and
\* nothing after it is executed; the locals and the trigger values the
\* stopped run carried are gone.  A run stopped after the count of the turn
\* is stopped at st.chat_message("user"), with the screen as it was, or at
\* a later call, when the user message has taken the place of the uploader.
StopRun ==
    /\ pc' = "idle"
    /\ DropLocals
    /\ IF Running THEN screen' = "ChatInput"
       ELSE IF pc = "counted" THEN screen' \in {screen, "ChatInput"}
       ELSE screen' = screen

\* The widget is used between runs: nothing is stopped.
NoRun == UNCHANGED <<pc, local_vars, screen>>

\* st.button("Proceed to Chat Interface") is pressed.
ClickProceed ==
    /\ screen = "Landing"
    /\ \/ pc = "idle" /\ ~button
       \/ Starting
    /\ button' = TRUE
    /\ rerun' = TRUE
    /\ IF pc = "idle" THEN NoRun ELSE StopRun
    /\ UNCHANGED <<session_vars, chat_input, file_uploader, env_vars,
                   download_data, history_vars>>

\* A prompt is entered in st.chat_input, between runs or during one.
SubmitPromptUpTo(bound) ==
    /\ \/ pc = "idle" /\ screen \in {"Chat", "ChatInput"}
             /\ chat_input = NoPrompt
       \/ Starting /\ screen \in {"Chat", "ChatInput"}
       \/ Running
    /\ Len(submitted) < bound
    /\ LET p == Prompt(Len(submitted) + 1) IN
          /\ chat_input' = p
          /\ submitted' = Append(submitted, p)
    /\ rerun' = TRUE
    /\ IF pc = "idle" THEN NoRun ELSE StopRun
    /\ UNCHANGED <<session_vars, button, file_uploader, env_vars,
                   download_data, completed, append_calls, log_args,
                   gateway_raised, fresh_upload, submission_since_export>>

SubmitPrompt == SubmitPromptUpTo(MaxTurns)

SubmitPromptTimed == SubmitPromptUpTo(MaxTimedTurns)

\* st.download_button of the sidebar is pressed, between runs or during
\* one: the browser saves the data and the script is run again with the
\* widget values as they are; a prompt carried by a stopped run is gone.
ClickDownload ==
    /\ download_data # <<>>
    /\ \/ pc = "idle" /\ screen \in {"Chat", "ChatInput"}
       \/ Starting /\ screen \in {"Chat", "ChatInput"}
       \/ Running
    /\ rerun' = TRUE
    /\ IF pc = "idle"
       THEN /\ NoRun
            /\ UNCHANGED chat_input
       ELSE /\ StopRun
            /\ chat_input' = NoPrompt
    /\ UNCHANGED <<session_vars, button, file_uploader, env_vars,
                   download_data, history_vars>>

\* A file is chosen in st.file_uploader, between runs or while a run has
\* not yet replaced the uploader on screen.
UploadFile ==
    /\ pc = "idle" \/ Starting
    /\ screen = "Chat"
    /\ \E f \in Files :
          /\ f # file_uploader
          /\ file_uploader' = f
    /\ fresh_upload' = TRUE
    /\ rerun' = TRUE
    /\ IF pc = "idle"
       THEN /\ NoRun
            /\ UNCHANGED chat_input
       ELSE /\ StopRun
            /\ chat_input' = NoPrompt
    /\ UNCHANGED <<session_vars, button, env_vars, download_data, submitted,
                   completed, append_calls, log_args, gateway_raised,
                   submission_since_export>>

\* The file is removed from st.file_uploader, between runs or while a run
\* has not yet replaced the uploader on screen.
RemoveFile ==
    /\ pc = "idle" \/ Starting
    /\ screen = "Chat"
    /\ file_uploader # None
    /\ file_uploader' = None
    /\ rerun' = TRUE
    /\ IF pc = "idle"
       THEN /\ NoRun
            /\ UNCHANGED chat_input
       ELSE /\ StopRun
            /\ chat_input' = NoPrompt
    /\ UNCHANGED <<session_vars, button, env_vars, download_data,
                   history_vars>>

\* ------------------------------------------------------ the environment
\* The wall clock (datetime.datetime.now, time.time) advances.
Tick ==
    /\ now < MaxClock
    /\ now' = now + 1
    /\ UNCHANGED <<session_vars, widget_vars, pc, rerun, screen, local_vars,
                   secrets, gsheet, gateway_failures, sink_failures,
                   download_data, history_vars>>

\* --------------------------------------------------------------- Spec
ScriptRun ==
    \/ ConfigureGemini
    \/ ConnectSheets
    \/ SessionInit
    \/ ShowLandingPage
    \/ RenderSidebar
    \/ ShowChatInterface
    \/ CountTurn
    \/ BeginSubmission
    \/ SubmissionDies
    \/ GatewayStream
    \/ AppendAssistant
    \/ LogInteraction
    \/ CompleteTurn

Participant ==
    \/ ClickProceed
    \/ SubmitPrompt
    \/ ClickDownload
    \/ UploadFile
    \/ RemoveFile

Next ==
    \/ ConfigureGemini
    \/ ConnectSheets
    \/ SessionInit
    \/ ShowLandingPage
    \/ RenderSidebar
    \/ ShowChatInterface
    \/ CountTurn
    \/ BeginSubmission
    \/ SubmissionDies
    \/ GatewayStream
    \/ AppendAssistant
    \/ LogInteraction
    \/ CompleteTurn
    \/ ClickProceed
    \/ SubmitPrompt
    \/ ClickDownload
    \/ UploadFile
    \/ RemoveFile

\* The session while the wall clock stands still.
Spec == Init /\ [][Next]_vars

ClockNext ==
    \/ ConfigureGemini
    \/ ConnectSheets
    \/ SessionInit
    \/ ShowLandingPage
    \/ RenderSidebar
    \/ ShowChatInterface
    \/ CountTurn
    \/ BeginSubmission
    \/ SubmissionDies
    \/ GatewayStream
    \/ AppendAssistant
    \/ LogInteraction
    \/ CompleteTurn
    \/ ClickProceed
    \/ SubmitPromptTimed
    \/ ClickDownload
    \/ UploadFile
    \/ RemoveFile
    \/ Tick

\* The session with the wall clock advancing.
ClockSpec == Init /\ [][ClockNext]_vars

\* The script runner executes a requested run, and every step of a run it
\* started: the calls of the script return or raise.
FairSpec == Spec /\ WF_vars(ScriptRun)

\* ------------------------------------------------------------- claims
\* No run is in progress and none is requested.
Quiescent == pc = "idle" /\ ~rerun

\* Every submission the participant made has run to its end.
AllCompleted ==
    pc = "idle" /\ chat_input = NoPrompt /\ completed = Len(submitted)

Alternating ==
    \A i \in 1..Len(chat_history) :
        chat_history[i].role = IF i % 2 = 1 THEN "user" ELSE "assistant"

\* No call to Google Sheets has failed: the spreadsheet was opened on every
\* run (a failed open leaves the error screen for good) and every append
\* added its row.
SinkWorked == screen # "Error" /\ append_calls = Len(gsheet)

IsErrorDescription(text) ==
    \E e \in Exceptions : text = ErrorPrefix \o str(e)

\* The model raised during the latest submission that reached it, and that
\* submission is past log_interaction or no longer running.
AfterGatewayFailure ==
    gateway_raised /\ pc \notin {"gateway", "respond", "replied"}

\* C1: once N submissions have each run to completion, chat_history has
\* exactly 2N entries alternating user, assistant, and turn_count is N.
C1_TwoEntriesPerTurn ==
    AllCompleted =>
        /\ Len(chat_history) = 2 * Len(submitted)
        /\ turn_count = Len(submitted)
        /\ Alternating

C1_Witness ==
    /\ AllCompleted
    /\ Len(submitted) = 2
    /\ append_calls > Len(gsheet)
    /\ \E i \in {2, 4} : IsErrorDescription(chat_history[i].text)
    /\ \E k \in 1..Len(gsheet) : gsheet[k].attachment_type = "Image Upload"

\* C2: with a working Log Sink, N prompts submitted in sequence leave
\* exactly N rows in the sheet, the k-th row carrying the k-th prompt and
\* turn_count k.
C2_RowsInSubmissionOrder ==
    (pc = "idle" /\ chat_input = NoPrompt /\ SinkWorked) =>
        /\ Len(gsheet) = Len(submitted)
        /\ \A k \in 1..Len(gsheet) :
              /\ gsheet[k].prompt = submitted[k]
              /\ gsheet[k].turn_count = k

\* C3: after a submission during which the model raised, the history ends
\* with the user message and one assistant message whose text is the error
\* description, and log_interaction was called once for it, with that text
\* as the response.
C3_TextIsErrorDescription ==
    AfterGatewayFailure =>
        LET n == Len(chat_history) IN
        /\ n >= 2
        /\ chat_history[n - 1].role = "user"
        /\ chat_history[n].role = "assistant"
        /\ chat_history[n - 1].text = log_args.prompt
        /\ chat_history[n].text # <<>>
        /\ IsErrorDescription(chat_history[n].text)
        /\ log_args.response = chat_history[n].text

\* C4: a call of gsheet.append_row that fails rolls nothing back and is not
\* propagated: the history keeps, as its last two entries, the user message
\* and the assistant message of the submission, turn_count stays as counted,
\* one attempt has been made, and the run goes on; whatever step follows
\* log_interaction makes no second attempt, leaves history and turn_count
\* as they are, and leaves the chat input on screen with the next run
\* requested.
C4_SinkFailureIsolated ==
    [][/\ (append_calls' # append_calls /\ gsheet' = gsheet) =>
              LET n == Len(chat_history) IN
              /\ chat_history' = chat_history
              /\ n >= 2
              /\ chat_history[n - 1] = [role |-> "user", text |-> prompt]
              /\ chat_history[n] =
                     [role |-> "assistant", text |-> full_response]
              /\ turn_count' = turn_count
              /\ turn_count >= 1
              /\ append_calls' = append_calls + 1
              /\ pc' = "logged"
              /\ screen' # "Error"
       /\ (pc = "logged" /\ pc' # pc) =>
              /\ chat_history' = chat_history
              /\ turn_count' = turn_count
              /\ append_calls' = append_calls
              /\ gsheet' = gsheet
              /\ pc' = "idle"
              /\ rerun'
              /\ page' = "Chat"
              /\ screen' = "ChatInput"]_vars

C4_Witness ==
    /\ completed = 2
    /\ Len(chat_history) = 4
    /\ Len(gsheet) = 1
    /\ gsheet[1].turn_count = 2

\* C5: the application is halted by st.stop() only when no participant id
\* has been allocated yet.
C5_HaltOnlyBeforeStart ==
    screen = "Error" => anonymized_user_id = NoId

\* C6: once allocated, anonymized_user_id never changes; it is allocated by
\* the first run that passes configuration; every logged row carries it.
C6_IdentityStable ==
    [][/\ anonymized_user_id # NoId =>
              anonymized_user_id' = anonymized_user_id
       /\ (pc' \in {"route", "chat", "counted", "gateway", "respond",
                    "replied", "logged"}
              \/ screen' \in {"Landing", "Chat", "ChatInput"}) =>
              anonymized_user_id' # NoId
       /\ \A k \in 1..Len(gsheet') :
              gsheet'[k].user_id = anonymized_user_id']_vars

C6_Witness ==
    /\ Quiescent
    /\ page = "Chat"
    /\ uploaded_file = None
    /\ Len(gsheet) = 2
    /\ gsheet[1].user_id = anonymized_user_id
    /\ gsheet[2].user_id = anonymized_user_id

\* The sidebar is about to call format_chat_history_for_download, it has
\* called it before in this session, and no submission has been processed
\* since that call.
ExportsAgain ==
    /\ pc = "route"
    /\ page = "Chat"
    /\ download_data # <<>>
    /\ ~submission_since_export

\* The step is the sidebar's.
SidebarStep == pc = "route" /\ pc' = "chat"

\* C7 as stated: a call of format_chat_history_for_download that follows
\* another with no submission in between returns the same text.
C7_ExportIdentical ==
    [][(ExportsAgain /\ SidebarStep) =>
          download_data' = download_data]_vars

\* C7 as amended: it returns the same text except for the Date line, and
\* the Date line of every call carries the time of the call.
C7_ExportIdenticalButDate ==
    [][/\ (ExportsAgain /\ SidebarStep) =>
              /\ Len(download_data') = Len(download_data)
              /\ \A i \in 1..Len(download_data) :
                    i # DateLine => download_data'[i] = download_data[i]
       /\ (SidebarStep /\ chat_history # <<>>) =>
              download_data'[DateLine] = <<"Date: ", now>>]_vars

C7_Witness ==
    /\ ExportsAgain
    /\ Len(chat_history) = 2
    /\ download_data[DateLine] # <<"Date: ", now>>

\* C8: turn_count is len(chat_history)/2 rounded up; chat_history has an
\* odd length only between the append of a user message and the append of
\* its reply; turn_count changes only in the step that appends a user
\* message.
C8_TurnCountTracksHistory ==
    [][/\ turn_count' = (Len(chat_history') + 1) \div 2
       /\ Len(chat_history') % 2 = 1 => pc' \in {"gateway", "respond"}
       /\ turn_count' # turn_count =>
             /\ turn_count' = turn_count + 1
             /\ Len(chat_history') = Len(chat_history) + 1
             /\ chat_history'[Len(chat_history')].role = "user"]_vars

\* C9: a completed submission leaves no uploaded file pending, and a
\* submission that starts when the participant has uploaded no file since
\* the last one was consumed goes to the model without an image and is
\* logged as 'Text Only'.
C9_ImageConsumedOnce ==
    [][/\ completed' # completed =>
              uploaded_file' \in {None, Absent}
       /\ (pc = "counted" /\ pc' = "gateway" /\ ~fresh_upload) =>
              /\ attachment_type' = "Text Only"
              /\ api_prompt_parts' = <<prompt'>>]_vars

\* C10: once the participant stops acting (every step is a step of the
\* script), the app keeps reaching a state where a run has completed and no
\* rerun is requested.
C10_RerunChainEnds == <>[][ScriptRun]_vars => []<>Quiescent

====
